---- MODULE Spec2Model ----
(***************************************************************************)
(* Prohibition rules engine (python/common/prohibitions.py) and the VIPS   *)
(* date helpers it is used with (python/common/vips_api.py,                *)
(* python/common/helper.py).                                               *)
(*                                                                         *)
(* A datetime is the record                                                *)
(*   [ord, tod, us, aware, off]                                            *)
(* ord   proleptic Gregorian ordinal of its wall-clock date                *)
(*       (datetime.toordinal()),                                           *)
(* tod   wall-clock second of the day, 0..86399,                           *)
(* us    microsecond, 0..999999,                                           *)
(* aware TRUE iff tzinfo is set,                                           *)
(* off   utcoffset in minutes east of UTC (0 when naive).                  *)
(***************************************************************************)
EXTENDS Integers, Sequences, FiniteSets, TLC

VARIABLES op, arg, ret, log, now, default_today, forms, resp, nreq

\* op, arg, ret, log  the call in progress, its arguments, result and log
\* now                the clock, as datetime.now() reads it
\* default_today      the default of the parameter today of each function
\*                    that has one, bound when the function was defined
\* forms, resp, nreq  the forms table, the last response of the forms API
\*                    and the number of requests answered
vars == <<op, arg, ret, log, now, default_today, forms, resp, nreq>>

callVars == <<op, arg, ret, log>>
clockVars == <<now, default_today>>
formVars == <<forms, resp, nreq>>

----------------------------------------------------------------------------
(* datetime: the standard library's calendar arithmetic                    *)

SecondsPerDay == 24 * 3600

IsLeap(y) == y % 4 = 0 /\ (y % 100 # 0 \/ y % 400 = 0)

DaysInMonth(y, m) ==
    IF m = 2 THEN (IF IsLeap(y) THEN 29 ELSE 28)
    ELSE IF m \in {4, 6, 9, 11} THEN 30 ELSE 31

RECURSIVE DaysBeforeMonth(_, _)
DaysBeforeMonth(y, m) ==
    IF m = 1 THEN 0 ELSE DaysBeforeMonth(y, m - 1) + DaysInMonth(y, m - 1)

DaysBeforeYear(y) ==
    (y - 1) * 365 + ((y - 1) \div 4) - ((y - 1) \div 100) + ((y - 1) \div 400)

\* date(y, m, d).toordinal()
Ymd2Ord(y, m, d) == DaysBeforeYear(y) + DaysBeforeMonth(y, m) + d

\* date.fromordinal(n) as <<year, month, day>>
Ord2Ymd(n) ==
    LET n0   == n - 1
        n400 == n0 \div 146097
        r400 == n0 % 146097
        n100 == r400 \div 36524
        r100 == r400 % 36524
        n4   == r100 \div 1461
        r4   == r100 % 1461
        n1   == r4 \div 365
        r1   == r4 % 365
        year == n400 * 400 + 1 + n100 * 100 + n4 * 4 + n1
    IN  IF n1 = 4 \/ n100 = 4
        THEN <<year - 1, 12, 31>>
        ELSE LET month == CHOOSE m \in 1..12 :
                              /\ DaysBeforeMonth(year, m) <= r1
                              /\ r1 < DaysBeforeMonth(year, m) + DaysInMonth(year, m)
             IN  <<year, month, r1 - DaysBeforeMonth(year, month) + 1>>

\* date.weekday(): Monday is 0, Sunday is 6
Weekday(n) == (n + 6) % 7

DateTime(o, t, u, a, f) == [ord |-> o, tod |-> t, us |-> u, aware |-> a, off |-> f]

\* datetime + timedelta(days=n): the wall-clock date moves, tzinfo is kept
AddDays(dt, n) == [dt EXCEPT !.ord = dt.ord + n]

\* datetime.replace(tzinfo=tz) with tz of fixed offset f
ReplaceTzinfo(dt, f) == [dt EXCEPT !.aware = TRUE, !.off = f]

\* The UTC instant of an aware datetime, as <<day, second, microsecond>>
UtcKey(dt) ==
    LET s == dt.tod - dt.off * 60
    IN  <<dt.ord + (s \div SecondsPerDay), s % SecondsPerDay, dt.us>>

KeyLess(a, b) ==
    \/ a[1] < b[1]
    \/ a[1] = b[1] /\ a[2] < b[2]
    \/ a[1] = b[1] /\ a[2] = b[2] /\ a[3] < b[3]

\* a > b, a == b, a <= b on aware datetimes: comparison of instants
DtGt(a, b) == KeyLess(UtcKey(b), UtcKey(a))
DtEq(a, b) == UtcKey(a) = UtcKey(b)
DtLe(a, b) == ~DtGt(a, b)

----------------------------------------------------------------------------
(* Optional values: Python's None and a present value                      *)

None == [isNone |-> TRUE]
Some(v) == [isNone |-> FALSE, val |-> v]

----------------------------------------------------------------------------
(* America/Vancouver                                                       *)

\* pytz.timezone('America/Vancouver') handed to datetime.replace(tzinfo=...)
\* is the zone's first entry, local mean time LMT-8:12, in minutes
VancouverLMT == -492

PST == -(8 * 60)
PDT == -(7 * 60)

\* The first Sunday on or after ordinal n
SundayOnOrAfter(n) == n + ((6 - Weekday(n)) % 7)

\* Daylight time runs from the second Sunday of March to the first Sunday of
\* November; a wall-clock time in the skipped or the repeated hour is taken
\* as standard time.
VancouverIsDst(dt) ==
    LET y     == Ord2Ymd(dt.ord)[1]
        start == SundayOnOrAfter(Ymd2Ord(y, 3, 1)) + 7
        end   == SundayOnOrAfter(Ymd2Ord(y, 11, 1))
    IN  /\ KeyLess(<<start, 3 * 3600 - 1, 0>>, <<dt.ord, dt.tod, 0>>)
        /\ KeyLess(<<dt.ord, dt.tod, 0>>, <<end, 3600, 0>>)

VancouverCivilOffset(dt) == IF VancouverIsDst(dt) THEN PDT ELSE PST

\* helper.localize_timezone: the wall-clock fields are kept and the civil
\* offset of America/Vancouver at that wall-clock time is attached
localize_timezone(dt) == ReplaceTzinfo(dt, VancouverCivilOffset(dt))

----------------------------------------------------------------------------
(* prohibitions.py                                                         *)

WRITTEN_REVIEW_PRICE == 100
ORAL_REVIEW_PRICE == 200
MIN_DAYS_FROM_SCHEDULING_TO_REVIEW == 4
MIN_DAYS_FROM_SERVED_TO_REVIEW == 6
MAX_DAYS_FROM_SERVED_TO_REVIEW == 16
UL_WRITTEN_REVIEW_PRICE == 50

Classes == {"ProhibitionBase", "UnlicencedDriver", "ImmediateRoadside",
            "AdministrativeDriving"}

\* prohibition_factory with a default class for an unknown code
Mut_prohibition_factory(prohibition_type) ==
    IF prohibition_type = "UL"
    THEN [value |-> Some("UnlicencedDriver"), critical |-> <<>>]
    ELSE IF prohibition_type = "ADP"
    THEN [value |-> Some("AdministrativeDriving"), critical |-> <<>>]
    ELSE [value |-> Some("ImmediateRoadside"), critical |-> <<>>]

\* The result of prohibition_factory and the critical log entries it emits
prohibition_factory(prohibition_type) ==
    IF prohibition_type = "UL"
    THEN [value |-> Some("UnlicencedDriver"), critical |-> <<>>]
    ELSE IF prohibition_type = "IRP"
    THEN [value |-> Some("ImmediateRoadside"), critical |-> <<>>]
    ELSE IF prohibition_type = "ADP"
    THEN [value |-> Some("AdministrativeDriving"), critical |-> <<>>]
    ELSE [value |-> None,
          critical |-> <<[level |-> "CRITICAL", msg |-> "prohibition_type not known"]>>]

\* the base window with the maximum never moved up to the earliest date
Mut_Base_NoMaxClamp(service_date, today) ==
    LET earliest_possible_date ==
            AddDays(ReplaceTzinfo(today, VancouverLMT),
                    MIN_DAYS_FROM_SCHEDULING_TO_REVIEW)
        min0 == AddDays(service_date, MIN_DAYS_FROM_SERVED_TO_REVIEW)
        legislated_minimum ==
            IF DtGt(earliest_possible_date, min0)
            THEN earliest_possible_date ELSE min0
    IN  <<legislated_minimum, AddDays(service_date, MAX_DAYS_FROM_SERVED_TO_REVIEW)>>

\* the base window with the minimum taken as the smaller of the two dates
Mut_Base_MinIsLesser(service_date, today) ==
    LET earliest_possible_date ==
            AddDays(ReplaceTzinfo(today, VancouverLMT),
                    MIN_DAYS_FROM_SCHEDULING_TO_REVIEW)
        min0 == AddDays(service_date, MIN_DAYS_FROM_SERVED_TO_REVIEW)
        legislated_minimum ==
            IF DtGt(min0, earliest_possible_date)
            THEN earliest_possible_date ELSE min0
        max0 == AddDays(service_date, MAX_DAYS_FROM_SERVED_TO_REVIEW)
        legislated_maximum ==
            IF DtGt(earliest_possible_date, max0)
            THEN earliest_possible_date ELSE max0
    IN  <<legislated_minimum, legislated_maximum>>

\* the base window with the collapsed maximum one day after the earliest date
Mut_Base_CollapseOff(service_date, today) ==
    LET earliest_possible_date ==
            AddDays(ReplaceTzinfo(today, VancouverLMT),
                    MIN_DAYS_FROM_SCHEDULING_TO_REVIEW)
        min0 == AddDays(service_date, MIN_DAYS_FROM_SERVED_TO_REVIEW)
        legislated_minimum ==
            IF DtGt(earliest_possible_date, min0)
            THEN earliest_possible_date ELSE min0
        max0 == AddDays(service_date, MAX_DAYS_FROM_SERVED_TO_REVIEW)
        legislated_maximum ==
            IF DtGt(earliest_possible_date, max0)
            THEN AddDays(earliest_possible_date, 1) ELSE max0
    IN  <<legislated_minimum, legislated_maximum>>

Base_get_min_max_review_dates(service_date, today) ==
    LET earliest_possible_date ==
            AddDays(ReplaceTzinfo(today, VancouverLMT),
                    MIN_DAYS_FROM_SCHEDULING_TO_REVIEW)
        min0 == AddDays(service_date, MIN_DAYS_FROM_SERVED_TO_REVIEW)
        legislated_minimum ==
            IF DtGt(earliest_possible_date, min0)
            THEN earliest_possible_date ELSE min0
        max0 == AddDays(service_date, MAX_DAYS_FROM_SERVED_TO_REVIEW)
        legislated_maximum ==
            IF DtGt(earliest_possible_date, max0)
            THEN earliest_possible_date ELSE max0
    IN  <<legislated_minimum, legislated_maximum>>

\* the base fee with the written price as the fallback
Mut_Base_amount_due(presentation_type) ==
    IF presentation_type = "ORAL" THEN Some(ORAL_REVIEW_PRICE)
    ELSE Some(WRITTEN_REVIEW_PRICE)

Base_amount_due(presentation_type) ==
    IF presentation_type = "WRIT" THEN Some(WRITTEN_REVIEW_PRICE)
    ELSE IF presentation_type = "ORAL" THEN Some(ORAL_REVIEW_PRICE)
    ELSE None

\* the unlicenced window with the maximum counted from the service date
Mut_UL_MaxFromService(service_date, today) ==
    LET min_date == AddDays(localize_timezone(today),
                            MIN_DAYS_FROM_SCHEDULING_TO_REVIEW)
        max_date == AddDays(service_date, MAX_DAYS_FROM_SERVED_TO_REVIEW)
    IN  <<min_date, max_date>>

UL_get_min_max_review_dates(service_date, today) ==
    LET min_date == AddDays(localize_timezone(today),
                            MIN_DAYS_FROM_SCHEDULING_TO_REVIEW)
        max_date == AddDays(localize_timezone(today),
                            MAX_DAYS_FROM_SERVED_TO_REVIEW)
    IN  <<min_date, max_date>>

\* the unlicenced fee without the override of the price
Mut_UL_amount_due(presentation_type) ==
    IF presentation_type = "ORAL" THEN Some(ORAL_REVIEW_PRICE)
    ELSE Some(UL_WRITTEN_REVIEW_PRICE)

UL_amount_due(presentation_type) == Some(UL_WRITTEN_REVIEW_PRICE)

\* Method resolution: UnlicencedDriver overrides both static methods,
\* ImmediateRoadside and AdministrativeDriving inherit ProhibitionBase's
get_min_max_review_dates(cls, service_date, today) ==
    IF cls = "UnlicencedDriver"
    THEN UL_get_min_max_review_dates(service_date, today)
    ELSE Base_get_min_max_review_dates(service_date, today)

amount_due(cls, presentation_type) ==
    IF cls = "UnlicencedDriver"
    THEN UL_amount_due(presentation_type)
    ELSE Base_amount_due(presentation_type)

----------------------------------------------------------------------------
(* Strings: a string the code slices or builds is a sequence of characters *)

Digits == <<"0", "1", "2", "3", "4", "5", "6", "7", "8", "9">>

DigitVal(c) == CHOOSE n \in 0..9 : Digits[n + 1] = c

\* n in decimal, zero-padded to w characters ("%02d", "%04d")
RECURSIVE Pad(_, _)
Pad(n, w) == IF w = 0 THEN <<>> ELSE Append(Pad(n \div 10, w - 1), Digits[(n % 10) + 1])

\* n in decimal without padding
RECURSIVE Decimal(_)
Decimal(n) == IF n < 10 THEN <<Digits[n + 1]>> ELSE Append(Decimal(n \div 10), Digits[(n % 10) + 1])

\* int() of a sequence of digits
RECURSIVE ParseInt(_)
ParseInt(cs) ==
    IF cs = <<>> THEN 0
    ELSE ParseInt(SubSeq(cs, 1, Len(cs) - 1)) * 10 + DigitVal(cs[Len(cs)])

Abs(n) == IF n < 0 THEN -n ELSE n

----------------------------------------------------------------------------
(* vips_api.py                                                             *)

\* strftime("%Y-%m-%d %H:%M:%S %z") of an aware datetime: the offset is
\* written +HHMM or -HHMM and the microsecond is not written
Strftime(dt) ==
    LET ymd == Ord2Ymd(dt.ord)
    IN  Pad(ymd[1], 4) \o <<"-">> \o Pad(ymd[2], 2) \o <<"-">> \o Pad(ymd[3], 2)
        \o <<" ">>
        \o Pad(dt.tod \div 3600, 2) \o <<":">> \o Pad((dt.tod \div 60) % 60, 2)
        \o <<":">> \o Pad(dt.tod % 60, 2)
        \o <<" ">>
        \o <<IF dt.off < 0 THEN "-" ELSE "+">>
        \o Pad(Abs(dt.off) \div 60, 2) \o Pad(Abs(dt.off) % 60, 2)

\* vips_datetime with the colon left out of the offset
Mut_vips_datetime(date_time) == Strftime(date_time)

\* vips_datetime: "YYYY-MM-DD HH:MM:SS +HH:MM", a space before the offset
\* and a colon inside it
vips_datetime(date_time) ==
    LET dt_string == Strftime(date_time)
    IN  SubSeq(dt_string, 1, 23) \o <<":">> \o SubSeq(dt_string, 24, 25)

\* The ISO-8601 parser on "YYYY-MM-DD HH:MM:SS+HHMM"
ParseIso(cs) ==
    LET y    == ParseInt(SubSeq(cs, 1, 4))
        mo   == ParseInt(SubSeq(cs, 6, 7))
        d    == ParseInt(SubSeq(cs, 9, 10))
        h    == ParseInt(SubSeq(cs, 12, 13))
        mi   == ParseInt(SubSeq(cs, 15, 16))
        sec  == ParseInt(SubSeq(cs, 18, 19))
        sign == IF cs[20] = "-" THEN -1 ELSE 1
        oh   == ParseInt(SubSeq(cs, 21, 22))
        om   == ParseInt(SubSeq(cs, 23, 24))
    IN  DateTime(Ymd2Ord(y, mo, d), h * 3600 + mi * 60 + sec, 0, TRUE,
                 sign * (oh * 60 + om))

\* vips_str_to_datetime: the space before the offset and the colon inside it
\* are stripped and the rest is handed to the ISO-8601 parser
vips_str_to_datetime(vips_date_time) ==
    ParseIso(SubSeq(vips_date_time, 1, 19) \o SubSeq(vips_date_time, 21, 23)
             \o SubSeq(vips_date_time, 25, 26))

\* list_of_weekdays_dates_between: the days start, start + 1, ..., start + n
\* that fall on Monday to Friday, in that order
RECURSIVE WeekdaysUpTo(_, _)
WeekdaysUpTo(start, n) ==
    IF n < 0 THEN <<>>
    ELSE LET next_date == AddDays(start, n)
         IN  IF Weekday(next_date.ord) < 5
             THEN Append(WeekdaysUpTo(start, n - 1), next_date)
             ELSE WeekdaysUpTo(start, n - 1)

\* list_of_weekdays_dates_between with the end date left out
Mut_list_of_weekdays_dates_between(start, end) ==
    WeekdaysUpTo(start, end.ord - start.ord - 1)

list_of_weekdays_dates_between(start, end) ==
    WeekdaysUpTo(start, end.ord - start.ord)

WeekdayAbbr == <<"Mon", "Tue", "Wed", "Thu", "Fri", "Sat", "Sun">>
MonthAbbr == <<"Jan", "Feb", "Mar", "Apr", "May", "Jun",
               "Jul", "Aug", "Sep", "Oct", "Nov", "Dec">>

\* "9:00AM": the hour on the 12-hour clock without a leading zero
FriendlyClock(dt) ==
    LET h   == dt.tod \div 3600
        h12 == IF h % 12 = 0 THEN 12 ELSE h % 12
    IN  Decimal(h12) \o <<":">> \o Pad((dt.tod \div 60) % 60, 2)
        \o <<IF h < 12 THEN "AM" ELSE "PM">>

\* "Fri, Sep 4, 2020 - 9:00AM to 9:30AM"
FriendlyLabel(start_time, end_time) ==
    LET ymd == Ord2Ymd(start_time.ord)
    IN  <<WeekdayAbbr[Weekday(start_time.ord) + 1], ",", " ", MonthAbbr[ymd[2]], " ">>
        \o Decimal(ymd[3]) \o <<",", " ">> \o Decimal(ymd[1]) \o <<" ", "-", " ">>
        \o FriendlyClock(start_time) \o <<" ", "to", " ">> \o FriendlyClock(end_time)

FriendlySlot(slot) ==
    [label |-> FriendlyLabel(slot.start, slot.end),
     start |-> slot.start, end |-> slot.end]

\* time_slots_to_friendly_times with the availability flag not looked at
RECURSIVE Mut_time_slots_to_friendly_times(_, _)
Mut_time_slots_to_friendly_times(time_slots, presentation_type) ==
    IF time_slots = <<>> THEN <<>>
    ELSE LET item == Head(time_slots)
             rest == Mut_time_slots_to_friendly_times(Tail(time_slots), presentation_type)
         IN  IF item.tag = presentation_type
             THEN <<FriendlySlot(item)>> \o rest
             ELSE rest

\* time_slots_to_friendly_times: one labelled entry, in input order, for each
\* slot that is available and of the presentation type asked for
RECURSIVE time_slots_to_friendly_times(_, _)
time_slots_to_friendly_times(time_slots, presentation_type) ==
    IF time_slots = <<>> THEN <<>>
    ELSE LET item == Head(time_slots)
             rest == time_slots_to_friendly_times(Tail(time_slots), presentation_type)
         IN  IF item.available /\ item.tag = presentation_type
             THEN <<FriendlySlot(item)>> \o rest
             ELSE rest

----------------------------------------------------------------------------
(* Inputs                                                                  *)

MaxTodayDay == 18
MaxServiceDay == 3

BaseDate == Ymd2Ord(2020, 10, 20)

HMS(h, m, s) == h * 3600 + m * 60 + s

TodayTimes == {HMS(0, 0, 0), HMS(10, 48, 0), HMS(11, 48, 0), HMS(12, 0, 0)}
ServiceTimes == {HMS(12, 0, 0), HMS(17, 30, 0)}

\* today is datetime.now() or a parsed date: naive
Todays ==
    {DateTime(BaseDate + d, t, 0, FALSE, 0) : d \in 0..MaxTodayDay, t \in TodayTimes}

\* the service date comes from VIPS with its offset: aware
ServiceDates ==
    {DateTime(BaseDate + d, t, 0, TRUE, f) :
        d \in 0..MaxServiceDay, t \in ServiceTimes, f \in {PST, PDT}}

TypeCodes == {"UL", "IRP", "ADP", "XX", "", "ul", "IRP "}
PresentationTypes == {"WRIT", "ORAL", "writ", "", "BOTH"}

------------------------------------------------------------------------

\* timestamps handed to the date bridge: aware, with and without a fraction
\* of a second
VipsDates == {Ymd2Ord(2019, 1, 2), Ymd2Ord(2020, 2, 29), Ymd2Ord(2020, 11, 22),
              Ymd2Ord(2020, 12, 31)}
VipsClocks == {HMS(0, 0, 0), HMS(17, 30, 0), HMS(23, 59, 59)}
VipsOffsets == {PST, PDT, VancouverLMT, 0, 5 * 60 + 30}
VipsMicros == {0, 1, 999999}
VipsTimes ==
    {DateTime(d, t, u, TRUE, f) :
        d \in VipsDates, t \in VipsClocks, u \in VipsMicros, f \in VipsOffsets}

\* the strings of test_vips_datetime_conversion
VipsTestStrings ==
    {<<"2","0","1","9","-","0","1","-","0","2"," ","1","7",":","3","0",":","0","0",
       " ","-","0","8",":","0","0">>,
     <<"2","0","1","9","-","0","1","-","0","2"," ","1","7",":","3","0",":","0","0",
       " ","-","0","7",":","0","0">>}

VipsStrings == VipsTestStrings \cup {vips_datetime(t) : t \in VipsTimes}

MaxRangeDay == 9
RangeBase == Ymd2Ord(2020, 9, 1)
RangeDates == {DateTime(RangeBase + d, 0, 0, FALSE, 0) : d \in 0..MaxRangeDay}

MaxSlots == 3
SlotDay == Ymd2Ord(2020, 9, 4)
SlotPool ==
    {[start |-> DateTime(SlotDay, HMS(h, 0, 0), 0, TRUE, PDT),
      end |-> DateTime(SlotDay, HMS(h, 30, 0), 0, TRUE, PDT),
      available |-> a, tag |-> g] :
        h \in {9, 12}, a \in BOOLEAN, g \in {"ORAL", "WRIT"}}
SlotLists == UNION {[1..n -> SlotPool] : n \in 0..MaxSlots}

\* the clock when the module is loaded
LoadTimes == {DateTime(BaseDate, HMS(0, 0, 0), 0, FALSE, 0),
              DateTime(BaseDate + 1, HMS(11, 48, 0), 0, FALSE, 0)}

\* how many days the clock advances after the load
MaxTicks == 3

\* the functions that declare today=datetime.now()
FunctionsWithDefault == {"ProhibitionBase", "UnlicencedDriver"}

----------------------------------------------------------------------------
(* The forms API: the users and the forms table of its tests               *)

\* users with an approved role, and the user whose role is not approved
ApprovedUsers == {"larry@idir", "mo@idir"}
Users == ApprovedUsers \cup {"john@idir"}

FormTypes == {"24Hour", "12Hour"}

LEASE_DAYS == 30

\* unleased forms in the table beside those of the fixture
MaxSpareForms == 2

SpareId(k) == <<"AA-2000", k>>
FixtureDay == Ymd2Ord(2021, 7, 21)

Form(t, u, e) == [form_type |-> t, username |-> u, lease_expiry |-> e, printed |-> None]

FormIds == {<<"AA-123332", 0>>, <<"AA-123333", 0>>, <<"AA-123334", 0>>, <<"AA-11111", 0>>}
               \cup {SpareId(k) : k \in 1..MaxSpareForms}

InitialForms ==
    [f \in FormIds |->
        IF f = <<"AA-123332", 0>> THEN Form("24Hour", Some("larry@idir"), Some(FixtureDay))
        ELSE IF f = <<"AA-123333", 0>> THEN Form("24Hour", Some("larry@idir"), Some(FixtureDay - 1))
        ELSE IF f = <<"AA-123334", 0>> THEN Form("12Hour", Some("larry@idir"), Some(FixtureDay - 1))
        ELSE IF f = <<"AA-11111", 0>> THEN Form("24Hour", None, None)
        ELSE Form(IF f[2] % 2 = 1 THEN "24Hour" ELSE "12Hour", None, None)]

\* requests answered in one run
MaxRequests == 3

----------------------------------------------------------------------------
(* The operations: the caller is idle, makes one call and takes its result *)

Init ==
    /\ op = "idle"
    /\ arg = <<>>
    /\ ret = None
    /\ log = <<>>
    /\ \E t \in LoadTimes :
           /\ now = t
           /\ default_today = [f \in FunctionsWithDefault |-> t]
    /\ forms = InitialForms
    /\ resp = None
    /\ nreq = 0

CallFactory ==
    /\ op = "idle"
    /\ \E code \in TypeCodes :
        /\ op' = "prohibition_factory"
        /\ arg' = <<code>>
        /\ ret' = prohibition_factory(code).value
        /\ log' = prohibition_factory(code).critical
        /\ UNCHANGED <<clockVars, formVars>>

CallAmountDue ==
    /\ op = "idle"
    /\ \E cls \in Classes, pt \in PresentationTypes :
        /\ op' = "amount_due"
        /\ arg' = <<cls, pt>>
        /\ ret' = amount_due(cls, pt)
        /\ log' = <<>>
        /\ UNCHANGED <<clockVars, formVars>>

CallReviewDates ==
    /\ op = "idle"
    /\ \E cls \in Classes, s \in ServiceDates, t \in Todays :
        /\ op' = "get_min_max_review_dates"
        /\ arg' = <<cls, s, t>>
        /\ ret' = get_min_max_review_dates(cls, s, t)
        /\ log' = <<>>
        /\ UNCHANGED <<clockVars, formVars>>

CallVipsDatetime ==
    /\ op = "idle"
    /\ \E t \in VipsTimes :
        /\ op' = "vips_datetime"
        /\ arg' = <<t>>
        /\ ret' = vips_datetime(t)
        /\ log' = <<>>
        /\ UNCHANGED <<clockVars, formVars>>

CallVipsStrToDatetime ==
    /\ op = "idle"
    /\ \E str \in VipsStrings :
        /\ op' = "vips_str_to_datetime"
        /\ arg' = <<str>>
        /\ ret' = vips_str_to_datetime(str)
        /\ log' = <<>>
        /\ UNCHANGED <<clockVars, formVars>>

CallWeekdaysBetween ==
    /\ op = "idle"
    /\ \E start \in RangeDates, end \in RangeDates :
        /\ op' = "list_of_weekdays_dates_between"
        /\ arg' = <<start, end>>
        /\ ret' = list_of_weekdays_dates_between(start, end)
        /\ log' = <<>>
        /\ UNCHANGED <<clockVars, formVars>>

CallFriendlyTimes ==
    /\ op = "idle"
    /\ \E slots \in SlotLists, pt \in {"ORAL", "WRIT"} :
        /\ op' = "time_slots_to_friendly_times"
        /\ arg' = <<slots, pt>>
        /\ ret' = time_slots_to_friendly_times(slots, pt)
        /\ log' = <<>>
        /\ UNCHANGED <<clockVars, formVars>>

\* The caller has consumed the result
Return ==
    /\ op # "idle"
    /\ op' = "idle"
    /\ arg' = <<>>
    /\ ret' = None
    /\ log' = <<>>
    /\ UNCHANGED <<clockVars, formVars>>

Next ==
    \/ CallFactory
    \/ CallAmountDue
    \/ CallReviewDates
    \/ CallVipsDatetime
    \/ CallVipsStrToDatetime
    \/ CallWeekdaysBetween
    \/ CallFriendlyTimes
    \/ Return

Spec == Init /\ [][Next]_vars

----------------------------------------------------------------------------
(* The clock and the default of today                                      *)

\* the class whose function a call on cls runs
DefiningClass(cls) ==
    IF cls = "UnlicencedDriver" THEN "UnlicencedDriver" ELSE "ProhibitionBase"

\* today with the default evaluated at each call
Mut_ResolveToday(cls, passed) ==
    IF passed = None THEN now ELSE passed.val

\* The value of the parameter today: the argument when one is passed, else
\* the default, which def evaluated once
ResolveToday(cls, passed) ==
    IF passed = None THEN default_today[DefiningClass(cls)] ELSE passed.val

Tick ==
    /\ now.ord - default_today["ProhibitionBase"].ord < MaxTicks
    /\ now' = AddDays(now, 1)
    /\ UNCHANGED <<callVars, default_today, formVars>>

\* get_min_max_review_dates(service_date): no today is passed
CallReviewDatesDefault ==
    /\ op = "idle"
    /\ \E cls \in Classes, s \in ServiceDates :
        /\ op' = "get_min_max_review_dates"
        /\ arg' = <<cls, s, None>>
        /\ ret' = get_min_max_review_dates(cls, s, ResolveToday(cls, None))
        /\ log' = <<>>
        /\ UNCHANGED <<clockVars, formVars>>

\* get_min_max_review_dates(service_date, datetime.now())
CallReviewDatesNow ==
    /\ op = "idle"
    /\ \E cls \in Classes, s \in ServiceDates :
        /\ op' = "get_min_max_review_dates"
        /\ arg' = <<cls, s, Some(now)>>
        /\ ret' = get_min_max_review_dates(cls, s, ResolveToday(cls, Some(now)))
        /\ log' = <<>>
        /\ UNCHANGED <<clockVars, formVars>>

ClockNext ==
    \/ Tick
    \/ CallReviewDatesDefault
    \/ CallReviewDatesNow
    \/ Return

ClockSpec == Init /\ [][ClockNext]_vars

----------------------------------------------------------------------------
(* The forms API: POST /api/v1/forms/<form_type>                           *)

\* the forms of a type whatever their holder
Mut_FreeForms(form_type) ==
    {f \in FormIds : forms[f].form_type = form_type}

\* the forms of a type that no user holds
FreeForms(form_type) ==
    {f \in FormIds : forms[f].form_type = form_type /\ forms[f].username = None}

\* the table with form f leased to user for LEASE_DAYS days from today
Lease(f, user) ==
    [forms EXCEPT ![f] = [@ EXCEPT !.username = Some(user),
                                   !.lease_expiry = Some(now.ord + LEASE_DAYS)]]

Response(user, form_type, status, id) ==
    [user |-> user, form_type |-> form_type, status |-> status, id |-> id]

CreateForm ==
    /\ nreq < MaxRequests
    /\ nreq' = nreq + 1
    /\ \E user \in Users, form_type \in FormTypes :
        IF user \notin ApprovedUsers
        THEN /\ resp' = Response(user, form_type, 401, None)
             /\ forms' = forms
        ELSE IF FreeForms(form_type) = {}
        THEN /\ resp' = Response(user, form_type, 500, None)
             /\ forms' = forms
        ELSE \E f \in FreeForms(form_type) :
             /\ forms' = Lease(f, user)
             /\ resp' = Response(user, form_type, 201, Some(f))
    /\ UNCHANGED <<callVars, clockVars>>

FormsNext ==
    \/ CreateForm
    \/ Tick

FormsSpec == Init /\ [][FormsNext]_vars

----------------------------------------------------------------------------
(* Claims                                                                  *)

IsReviewDates == op = "get_min_max_review_dates"
IsBaseReviewDates == IsReviewDates /\ arg[1] # "UnlicencedDriver"
IsULReviewDates == IsReviewDates /\ arg[1] = "UnlicencedDriver"

\* earliest_possible_date, legislated minimum and maximum of a base call
EarliestOf(today) ==
    AddDays(ReplaceTzinfo(today, VancouverLMT), MIN_DAYS_FROM_SCHEDULING_TO_REVIEW)
ServedPlus(service_date, n) == AddDays(service_date, n)

\* m is the later of a and b
IsLaterOf(m, a, b) ==
    /\ m \in {a, b}
    /\ DtLe(a, m)
    /\ DtLe(b, m)

\* C1: for every policy and every (service_date, today) the returned pair
\* has minimumDate <= maximumDate, the collapsed window included.
C1_MinLeMax ==
    IsReviewDates => DtLe(ret[1], ret[2])

C1_Witness ==
    /\ IsBaseReviewDates
    /\ arg[1] = "ProhibitionBase"
    /\ DtEq(ret[1], ret[2])

C4_Collapse ==
    (/\ IsBaseReviewDates
     /\ DtGt(EarliestOf(arg[3]), ServedPlus(arg[2], 6))
     /\ DtGt(EarliestOf(arg[3]), ServedPlus(arg[2], 16)))
    => /\ ret[1] = EarliestOf(arg[3])
       /\ ret[2] = EarliestOf(arg[3])

C4_Witness ==
    /\ IsBaseReviewDates
    /\ arg[1] = "AdministrativeDriving"
    /\ DtGt(EarliestOf(arg[3]), ServedPlus(arg[2], 16))
    /\ ret = <<EarliestOf(arg[3]), EarliestOf(arg[3])>>

\* C5: prohibition_factory is total: "UL", "IRP" and "ADP" give their
\* policies, every other code gives None after one critical log entry.
C5_FactoryTotal ==
    op = "prohibition_factory" =>
        IF arg[1] = "UL" THEN ret = Some("UnlicencedDriver") /\ log = <<>>
        ELSE IF arg[1] = "IRP" THEN ret = Some("ImmediateRoadside") /\ log = <<>>
        ELSE IF arg[1] = "ADP" THEN ret = Some("AdministrativeDriving") /\ log = <<>>
        ELSE /\ ret = None
             /\ Len(log) = 1
             /\ log[1].level = "CRITICAL"

C5_Witness ==
    /\ op = "prohibition_factory"
    /\ arg[1] = "XX"
    /\ ret = None
    /\ Len(log) = 1

\* C6: base policy (and ImmediateRoadside, AdministrativeDriving):
\* amount_due("WRIT") = 100, amount_due("ORAL") = 200, anything else None.
C6_BaseAmountDue ==
    (op = "amount_due" /\ arg[1] # "UnlicencedDriver") =>
        IF arg[2] = "WRIT" THEN ret = Some(100)
        ELSE IF arg[2] = "ORAL" THEN ret = Some(200)
        ELSE ret = None

C6_Witness ==
    /\ op = "amount_due"
    /\ arg[1] = "ImmediateRoadside"
    /\ arg[2] \notin {"WRIT", "ORAL"}
    /\ ret = None

\* C7: UnlicencedDriver amount_due is 50 for every presentation type, "ORAL"
\* included: never 200 and never None.
C7_ULAmountDue ==
    (op = "amount_due" /\ arg[1] = "UnlicencedDriver") =>
        /\ ret = Some(50)
        /\ ret # Some(200)
        /\ ret # None

C7_Witness ==
    /\ op = "amount_due"
    /\ arg = <<"UnlicencedDriver", "ORAL">>
    /\ ret = Some(50)

\* the strings of the shape "YYYY-MM-DD HH:MM:SS +HH:MM"
HasVipsShape(cs) ==
    /\ Len(cs) = 26
    /\ cs[5] = "-" /\ cs[8] = "-" /\ cs[11] = " "
    /\ cs[14] = ":" /\ cs[17] = ":" /\ cs[20] = " "
    /\ cs[21] \in {"+", "-"}
    /\ cs[24] = ":"
    /\ \A i \in (1..26) \ {5, 8, 11, 14, 17, 20, 21, 24} :
           \E n \in 1..10 : Digits[n] = cs[i]

OrdsOf(dts) == [i \in 1..Len(dts) |-> dts[i].ord]

\* C9: list_of_weekdays_dates_between(start, end) is, ascending and without
\* duplicates, exactly the dates from start to end that fall on Monday to
\* Friday; it is empty when start > end.
C9_WeekdaysBetween ==
    op = "list_of_weekdays_dates_between" =>
        LET ords == OrdsOf(ret)
        IN  /\ \A i, j \in 1..Len(ret) : i < j => ords[i] < ords[j]
            /\ {ords[i] : i \in 1..Len(ret)} =
                   {d \in arg[1].ord..arg[2].ord : Weekday(d) \in 0..4}
            /\ \A i \in 1..Len(ret) : ret[i] = AddDays(arg[1], ords[i] - arg[1].ord)
            /\ arg[1].ord > arg[2].ord => ret = <<>>

C9_Witness ==
    /\ op = "list_of_weekdays_dates_between"
    /\ arg[1].ord = Ymd2Ord(2020, 9, 1)
    /\ arg[2].ord = Ymd2Ord(2020, 9, 7)
    /\ OrdsOf(ret) = <<Ymd2Ord(2020, 9, 1), Ymd2Ord(2020, 9, 2), Ymd2Ord(2020, 9, 3),
                       Ymd2Ord(2020, 9, 4), Ymd2Ord(2020, 9, 7)>>

\* the positions of the slots that are available and of the type asked for
Selected(slots, pt) ==
    {i \in 1..Len(slots) : slots[i].available /\ slots[i].tag = pt}

\* C10: time_slots_to_friendly_times returns one labelled entry for each
\* input slot that is available and matches presentationType, in input order;
\* unavailable slots and slots of the other mode never appear and nothing is
\* added or duplicated.
C10_FriendlyTimes ==
    op = "time_slots_to_friendly_times" =>
        LET sel == Selected(arg[1], arg[2])
        IN  /\ Len(ret) = Cardinality(sel)
            /\ \A i \in sel :
                   LET k == Cardinality({j \in sel : j <= i})
                   IN  /\ ret[k].start = arg[1][i].start
                       /\ ret[k].end = arg[1][i].end
                       /\ ret[k].label = FriendlyLabel(arg[1][i].start, arg[1][i].end)

C10_Witness ==
    /\ op = "time_slots_to_friendly_times"
    /\ arg[2] = "ORAL"
    /\ Len(arg[1]) = 3
    /\ ~arg[1][1].available /\ arg[1][1].tag = "ORAL"
    /\ arg[1][2].available /\ arg[1][2].tag = "ORAL"
    /\ arg[1][3].available /\ arg[1][3].tag = "WRIT"
    /\ Len(ret) = 1
    /\ ret[1].start = arg[1][2].start

\* C11: for ImmediateRoadside and AdministrativeDriving the window lies
\* within 7 to 14 days from the date of service: minimumDate is not before
\* service_date + 7 days and maximumDate is not after service_date + 14 days.
C11_Within7To14Days ==
    (IsReviewDates /\ arg[1] \in {"ImmediateRoadside", "AdministrativeDriving"}) =>
        /\ DtLe(AddDays(arg[2], 7), ret[1])
        /\ DtLe(ret[2], AddDays(arg[2], 14))

\* C13: in the base window earliestPossible is normalize(today) + 4 days,
\* the America/Vancouver civil offset attached to today's wall-clock fields,
\* and so the same instant as the UnlicencedDriver minimumDate for the same
\* today.  The base call returns earliestPossible as minimumDate whenever
\* that date is not service_date + 6 days.
C13_EarliestIsNormalizedToday ==
    (IsBaseReviewDates /\ ret[1] # AddDays(arg[2], 6)) =>
        /\ ret[1].ord = arg[3].ord + 4
        /\ ret[1].tod = arg[3].tod
        /\ ret[1].off = VancouverCivilOffset(arg[3])
        /\ DtEq(ret[1], get_min_max_review_dates("UnlicencedDriver", arg[2], arg[3])[1])

\* a call of get_min_max_review_dates that passes no today, or passes one
IsDefaultTodayCall == IsReviewDates /\ Len(arg) = 3 /\ arg[3] = None
IsExplicitTodayCall == IsReviewDates /\ Len(arg) = 3 /\ arg[3] # None

\* C14: without a today argument the call uses the value bound once when the
\* function was defined, not the time of the call: the default is the clock
\* at the load and never changes, so two such calls with the same
\* service_date return the same window however far the clock has advanced;
\* a call that passes today depends only on (service_date, today).
C14_DefaultTodayBoundAtLoad ==
    /\ default_today = [f \in FunctionsWithDefault |-> now]
    /\ [][default_today' = default_today]_vars
    /\ [](IsDefaultTodayCall =>
            ret = get_min_max_review_dates(arg[1], arg[2],
                                           default_today[DefiningClass(arg[1])]))
    /\ [](IsExplicitTodayCall =>
            ret = get_min_max_review_dates(arg[1], arg[2], arg[3].val))

C14_Witness ==
    /\ IsDefaultTodayCall
    /\ now.ord = default_today[DefiningClass(arg[1])].ord + MaxTicks
    /\ ret # get_min_max_review_dates(arg[1], arg[2], now)
    /\ ret = get_min_max_review_dates(arg[1], arg[2], default_today[DefiningClass(arg[1])])

====
